---- MODULE Spec2Model ----
(***************************************************************************)
(* Provider selection and caching of jlamperez/TradingAgents:              *)
(*   tradingagents/dataflows/search_provider_factory.py                    *)
(*   tradingagents/agents/utils/embedding_provider_factory.py              *)
(*                                                                         *)
(* Python strings are sequences of one-character strings, so that the `in` *)
(* operator of the source is real substring containment.  A configuration  *)
(* (Dict[str, Any]) is a function from a set of key names to strings; a    *)
(* key may be absent.  A provider instance is a record whose id is its     *)
(* object identity.                                                        *)
(***************************************************************************)
EXTENDS Integers, Sequences, FiniteSets, TLC

VARIABLES registry, selector, cache, nextId, last, handed, retired, emb_log, thread,
          latest, built, failure

vars == <<registry, selector, cache, nextId, last, handed, retired, emb_log, thread,
          latest, built, failure>>

\* ------------------------------------------------------------------ bounds

\* Length of the backend URLs given to a caller-built selector.
MaxUrlLen == 2

\* Number of provider objects one run may construct.
MaxInstances == 3

\* ----------------------------------------------------------- string values

EmptyStr == <<>>

GooglePattern == <<"g", "e", "n", "e", "r", "a", "t", "i", "v", "e", "l", "a", "n", "g", "u", "a", "g", "e", ".", "g", "o", "o", "g", "l", "e", "a", "p", "i", "s", ".", "c", "o", "m">>

OpenAIPattern == <<"a", "p", "i", ".", "o", "p", "e", "n", "a", "i", ".", "c", "o", "m">>

OllamaPattern == <<"l", "o", "c", "a", "l", "h", "o", "s", "t", ":", "1", "1", "4", "3", "4">>

Https == <<"h", "t", "t", "p", "s", ":", "/", "/">>

Http == <<"h", "t", "t", "p", ":", "/", "/">>

V1 == <<"/", "v", "1">>

\* "https://generativelanguage.googleapis.com/v1"
GoogleUrl == Https \o GooglePattern \o V1

\* "https://api.openai.com/generativelanguage.googleapis.com": both patterns of
\* the default selector, the OpenAI one first in the URL.
MixedUrl == Https \o OpenAIPattern \o <<"/">> \o GooglePattern

\* "https://some.other.vendor/v1"
OtherUrl == Https \o <<"s", "o", "m", "e", ".", "o", "t", "h", "e", "r", ".", "v", "e", "n", "d", "o", "r">> \o V1

\* "http://localhost:11434"
OllamaUrl == Http \o OllamaPattern

\* "http://localhost:11434/generativelanguage.googleapis.com"
OllamaGeminiUrl == Http \o OllamaPattern \o <<"/">> \o GooglePattern

\* "gemini-pro"
GeminiPro == <<"g", "e", "m", "i", "n", "i", "-", "p", "r", "o">>

\* ------------------------------------------------------------ Python values

\* pattern in s  (str.__contains__)
Contains(pattern, s) ==
    \E i \in 0..(Len(s) - Len(pattern)) : SubSeq(s, i + 1, i + Len(pattern)) = pattern

HasKey(d, k) == k \in DOMAIN d

\* d.get(k, default)
dict_get(d, k, default) == IF HasKey(d, k) THEN d[k] ELSE default

\* An insertion-ordered dict whose order is observable is a sequence of
\* <<key, value>> pairs with distinct keys.
OD_Has(od, k) == \E i \in 1..Len(od) : od[i][1] = k

OD_Get(od, k) == od[CHOOSE i \in 1..Len(od) : od[i][1] = k][2]

\* od[k] = v : overwrite in place, or append
OD_Set(od, k, v) ==
    IF OD_Has(od, k)
    THEN [i \in 1..Len(od) |-> IF od[i][1] = k THEN <<k, v>> ELSE od[i]]
    ELSE Append(od, <<k, v>>)

\* list(od.keys())
OD_Keys(od) == [i \in 1..Len(od) |-> od[i][1]]

\* The outcome of a call: a returned value or a raised exception.
Ok(v) == [kind |-> "ok", value |-> v]

Raise(exc, what) == [kind |-> exc, value |-> what]

\* A configuration from optional fields; an option is <<>> (key absent) or <<v>>.
MkConfig(u, m, x) ==
    [k \in ({"backend_url" : i \in 1..Len(u)} \cup {"quick_think_llm" : i \in 1..Len(m)}
            \cup {"max_debate_rounds" : i \in 1..Len(x)})
        |-> CASE k = "backend_url" -> u[1]
              [] k = "quick_think_llm" -> m[1]
              [] OTHER -> x[1]]

\* -------------------------------------------------------- provider objects

GoogleSearchProvider(id, model) ==
    [id |-> id, cls |-> "GoogleSearchProvider", args |-> <<model>>]

OpenAISearchProvider(id, model, backend_url) ==
    [id |-> id, cls |-> "OpenAISearchProvider", args |-> <<model, backend_url>>]

\* ------------------------------------------ MappingBasedProviderSelector

MappingBasedProviderSelector(mappings, default_provider) ==
    [mappings |-> mappings, default_provider |-> default_provider]

RECURSIVE select_loop_last_match(_, _, _, _)
\* Mutant: a later matching pattern overrides an earlier one.
select_loop_last_match(mappings, default_provider, backend_url, i) ==
    IF i > Len(mappings) THEN default_provider
    ELSE LET rest == select_loop_last_match(mappings, default_provider, backend_url, i + 1)
         IN  IF rest = default_provider /\ Contains(mappings[i][1], backend_url)
             THEN mappings[i][2] ELSE rest

RECURSIVE select_loop_leaked_variable(_, _, _, _)
\* Mutant: after the loop the loop variable is returned, not the default.
select_loop_leaked_variable(mappings, default_provider, backend_url, i) ==
    IF i > Len(mappings)
    THEN IF Len(mappings) > 0 THEN mappings[Len(mappings)][2] ELSE default_provider
    ELSE IF Contains(mappings[i][1], backend_url) THEN mappings[i][2]
    ELSE select_loop_leaked_variable(mappings, default_provider, backend_url, i + 1)

RECURSIVE select_loop(_, _, _, _)
\* the for loop of select_provider_type, from the i-th item of the mapping on
select_loop(mappings, default_provider, backend_url, i) ==
    IF i > Len(mappings) THEN default_provider
    ELSE IF Contains(mappings[i][1], backend_url) THEN mappings[i][2]
    ELSE select_loop(mappings, default_provider, backend_url, i + 1)

select_provider_type(self, config) ==
    LET backend_url == dict_get(config, "backend_url", EmptyStr)
    IN  select_loop(self.mappings, self.default_provider, backend_url, 1)

\* ------------------------------------------------ SearchProviderRegistry

create_google_provider(config, id) ==
    IF ~HasKey(config, "quick_think_llm") THEN Raise("KeyError", "quick_think_llm")
    ELSE Ok(GoogleSearchProvider(id, config["quick_think_llm"]))

create_openai_provider(config, id) ==
    IF ~HasKey(config, "quick_think_llm") THEN Raise("KeyError", "quick_think_llm")
    ELSE IF ~HasKey(config, "backend_url") THEN Raise("KeyError", "backend_url")
    ELSE Ok(OpenAISearchProvider(id, config["quick_think_llm"], config["backend_url"]))

\* creator(config): the registered callables are the two closures above
call_creator(creator, config, id) ==
    IF creator = "create_google_provider" THEN create_google_provider(config, id)
    ELSE create_openai_provider(config, id)

Creators == {"create_google_provider", "create_openai_provider"}

\* self._providers[provider_type] = creator
\* A registry that keeps the first creator of a label (dict.setdefault).
register_first_wins(providers, provider_type, creator) ==
    IF OD_Has(providers, provider_type) THEN providers
    ELSE OD_Set(providers, provider_type, creator)

\* SearchProviderRegistry.register: self._creators[provider_type] = creator
register(providers, provider_type, creator) == OD_Set(providers, provider_type, creator)

Event(fn, label, config) == [fn |-> fn, label |-> label, config |-> config]

\* Mutant: an unknown label falls back to the first registered creator.
create_with_fallback(providers, provider_type, config, id) ==
    IF ~OD_Has(providers, provider_type) /\ Len(providers) = 0
    THEN [result |-> Raise("ValueError", provider_type), calls |-> <<>>]
    ELSE LET creator == IF OD_Has(providers, provider_type)
                        THEN OD_Get(providers, provider_type) ELSE providers[1][2]
         IN  [result |-> call_creator(creator, config, id),
              calls  |-> <<Event(creator, provider_type, config)>>]

\* SearchProviderRegistry.create: the outcome and the callables it invoked
create(providers, provider_type, config, id) ==
    IF ~OD_Has(providers, provider_type)
    THEN [result |-> Raise("ValueError", provider_type), calls |-> <<>>]
    ELSE LET creator == OD_Get(providers, provider_type)
         IN  [result |-> call_creator(creator, config, id),
              calls  |-> <<Event(creator, provider_type, config)>>]

get_available_types(providers) == OD_Keys(providers)

\* ---------------------------------------------- SearchProviderFactoryImpl

\* The characters json.dumps copies as they are: ' ' to '~', without '"' and '\'.
\* (A TLA+ string cannot hold a backquote, so no input of the model has one.)
PrintableAscii ==
    { " ", "!", "#", "$", "%", "&", "'", "(", ")", "*", "+", ",", "-", ".", "/",
      "0", "1", "2", "3", "4", "5", "6", "7", "8", "9", ":", ";", "<", "=", ">", "?",
      "@", "A", "B", "C", "D", "E", "F", "G", "H", "I", "J", "K", "L", "M", "N", "O",
      "P", "Q", "R", "S", "T", "U", "V", "W", "X", "Y", "Z", "[", "]", "^", "_",
      "a", "b", "c", "d", "e", "f", "g", "h", "i", "j", "k", "l", "m", "n", "o",
      "p", "q", "r", "s", "t", "u", "v", "w", "x", "y", "z", "{", "|", "}", "~" }

\* ord(c) for the characters of the model's alphabet that are neither in
\* PrintableAscii nor one of the named escapes: DEL, NBSP, and some
\* characters beyond ASCII. (Characters beyond the basic plane cannot be written
\* in a TLA+ string.)
ord(c) ==
    CASE c = "" -> 127
      [] c = " " -> 160
      [] c = "é" -> 233
      [] c = "ü" -> 252
      [] c = "€" -> 8364

HexDigits == <<"0", "1", "2", "3", "4", "5", "6", "7", "8", "9", "a", "b", "c", "d", "e", "f">>

\* '\\u{0:04x}'.format(n)
EscapeUnicode(n) ==
    <<"\\", "u", HexDigits[((n \div 4096) % 16) + 1], HexDigits[((n \div 256) % 16) + 1],
      HexDigits[((n \div 16) % 16) + 1], HexDigits[(n % 16) + 1]>>

\* json.dumps with ensure_ascii (the default) on one character: '"', '\' and
\* the control characters with a short form get that form, every other
\* character outside ' '..'~' becomes \uXXXX, as a surrogate pair beyond
\* U+FFFF (json.encoder.py_encode_basestring_ascii).
EscapeChar(c) ==
    CASE c = "\"" -> <<"\\", "\"">>
      [] c = "\\" -> <<"\\", "\\">>
      [] c = "\n" -> <<"\\", "n">>
      [] c = "\r" -> <<"\\", "r">>
      [] c = "\t" -> <<"\\", "t">>
      [] c = "\f" -> <<"\\", "f">>
      [] c = "" -> <<"\\", "b">>
      [] c \in PrintableAscii -> <<c>>
      [] OTHER ->
           LET n == ord(c)
           IN  IF n < 65536 THEN EscapeUnicode(n)
               ELSE EscapeUnicode(55296 + (((n - 65536) \div 1024) % 1024))
                    \o EscapeUnicode(56320 + ((n - 65536) % 1024))

RECURSIVE json_string(_)
\* json.dumps of a str, without the surrounding quotes
json_string(s) ==
    IF s = <<>> THEN <<>> ELSE EscapeChar(Head(s)) \o json_string(Tail(s))

\* json.dumps({"backend_url": b, "model": m}, sort_keys=True)
json_dumps(cache_key_data) ==
    <<"{", "\"", "b", "a", "c", "k", "e", "n", "d", "_", "u", "r", "l", "\"", ":", " ", "\"">>
    \o json_string(cache_key_data.backend_url)
    \o <<"\"", ",", " ", "\"", "m", "o", "d", "e", "l", "\"", ":", " ", "\"">>
    \o json_string(cache_key_data.model)
    \o <<"\"", "}">>

\* hashlib.md5(text.encode()).hexdigest(): the digest is kept symbolic, a token
\* that is equal for equal texts and different for different texts.
md5_hexdigest(text) == [md5 |-> text]

\* Mutant: the digest is taken over every field of the configuration.
cache_key_of_whole_config(config) ==
    LET cache_key_data == [backend_url |-> dict_get(config, "backend_url", EmptyStr),
                           model |-> dict_get(config, "quick_think_llm", EmptyStr)]
    IN  md5_hexdigest(json_dumps(cache_key_data)
                      \o json_string(dict_get(config, "max_debate_rounds", EmptyStr)))

\* Mutant: the digest tells an absent field (config.get(k), JSON null) from "".
cache_key_of_absent_as_null(config) ==
    LET null == <<"n", "u", "l", "l">>
        cache_key_data == [backend_url |-> dict_get(config, "backend_url", null),
                           model |-> dict_get(config, "quick_think_llm", null)]
    IN  md5_hexdigest(json_dumps(cache_key_data))

\* Mutant: the digest leaves the backend_url out.
cache_key_of_model_only(config) ==
    LET cache_key_data == [backend_url |-> EmptyStr,
                           model |-> dict_get(config, "quick_think_llm", EmptyStr)]
    IN  md5_hexdigest(json_dumps(cache_key_data))

\* Mutant: the digest leaves the model out.
cache_key_of_url_only(config) ==
    LET cache_key_data == [backend_url |-> dict_get(config, "backend_url", EmptyStr),
                           model |-> EmptyStr]
    IN  md5_hexdigest(json_dumps(cache_key_data))

cache_key_of(config) ==
    LET cache_key_data == [backend_url |-> dict_get(config, "backend_url", EmptyStr),
                           model |-> dict_get(config, "quick_think_llm", EmptyStr)]
    IN  md5_hexdigest(json_dumps(cache_key_data))

\* Mutant: the store is dropped.
cache_store_dropped(c, cache_key, provider) == c

\* self._cache[cache_key] = provider
cache_store(c, cache_key, provider) ==
    [k \in DOMAIN c \cup {cache_key} |-> IF k = cache_key THEN provider ELSE c[k]]

\* lines 77-79: select the label, then construct through the registry
select_and_create(providers, sel, config, id) ==
    LET provider_type == select_provider_type(sel, config)
        made == create(providers, provider_type, config, id)
    IN  [result |-> made.result,
         calls  |-> <<Event("select_provider_type", provider_type, config),
                      Event("create", provider_type, config)>> \o made.calls]

\* A create_provider with negative caching: a failed construction is stored
\* as an empty entry, and a later call for the key gets that entry back.
create_provider_remembers_failure(providers, sel, c, config, id) ==
    LET cache_key == cache_key_of(config)
    IN  IF cache_key \in DOMAIN c
        THEN [result |-> Ok(c[cache_key]), cache |-> c, calls |-> <<>>]
        ELSE LET made == select_and_create(providers, sel, config, id)
             IN  IF made.result.kind = "ok"
                 THEN [result |-> made.result,
                       cache  |-> cache_store(c, cache_key, made.result.value),
                       calls  |-> made.calls]
                 ELSE [result |-> made.result,
                       cache  |-> cache_store(c, cache_key, [id |-> 0, cls |-> "None"]),
                       calls  |-> made.calls]

\* A sequential create_provider that ignores the cache on the way in: it
\* selects and constructs on every call and overwrites the entry.
create_provider_always_constructs(providers, sel, c, config, id) ==
    LET cache_key == cache_key_of(config)
        made == select_and_create(providers, sel, config, id)
    IN  IF made.result.kind = "ok"
        THEN [result |-> made.result,
              cache  |-> cache_store(c, cache_key, made.result.value),
              calls  |-> made.calls]
        ELSE [result |-> made.result, cache |-> c, calls |-> made.calls]

\* SearchProviderFactoryImpl.create_provider as one sequential call:
\* the outcome, the cache afterwards, and the collaborators it invoked.
create_provider(providers, sel, c, config, id) ==
    LET cache_key == cache_key_of(config)
    IN  IF cache_key \in DOMAIN c
        THEN [result |-> Ok(c[cache_key]), cache |-> c, calls |-> <<>>]
        ELSE LET made == select_and_create(providers, sel, config, id)
             IN  IF made.result.kind = "ok"
                 THEN [result |-> made.result,
                       cache  |-> cache_store(c, cache_key, made.result.value),
                       calls  |-> made.calls]
                 ELSE [result |-> made.result, cache |-> c, calls |-> made.calls]

EmptyCache == [k \in {} |-> 0]

\* Mutant: clear() forgotten.
clear_cache_kept(c) == c

\* self._cache.clear()
clear_cache(c) == EmptyCache

\* Mutant: the two URL patterns inserted in the other order.
\* A builder whose selector falls back to a label nobody registered.
create_search_provider_factory_unregistered_default ==
    LET r0 == <<>>
        r1 == register(r0, "google", "create_google_provider")
        r2 == register(r1, "openai", "create_openai_provider")
        url_mappings == << <<GooglePattern, "google">>, <<OpenAIPattern, "openai">> >>
    IN  [registry |-> r2,
         selector |-> MappingBasedProviderSelector(url_mappings, "default"),
         cache    |-> EmptyCache]

create_search_provider_factory_openai_first ==
    LET r0 == <<>>
        r1 == register(r0, "google", "create_google_provider")
        r2 == register(r1, "openai", "create_openai_provider")
        url_mappings == << <<OpenAIPattern, "openai">>, <<GooglePattern, "google">> >>
    IN  [registry |-> r2,
         selector |-> MappingBasedProviderSelector(url_mappings, "openai"),
         cache    |-> [k \in {} |-> 0]]

\* create_search_provider_factory(): registry, selector and empty cache
create_search_provider_factory ==
    LET r0 == <<>>
        r1 == register(r0, "google", "create_google_provider")
        r2 == register(r1, "openai", "create_openai_provider")
        url_mappings == << <<GooglePattern, "google">>, <<OpenAIPattern, "openai">> >>
    IN  [registry |-> r2,
         selector |-> MappingBasedProviderSelector(url_mappings, "openai"),
         cache    |-> EmptyCache]

\* ------------------------------------------------ EmbeddingProviderFactory

GeminiEmbeddingProvider(id, backend_url) ==
    [id |-> id, cls |-> "GeminiEmbeddingProvider", args |-> <<backend_url>>]

OllamaEmbeddingProvider(id, backend_url) ==
    [id |-> id, cls |-> "OllamaEmbeddingProvider", args |-> <<backend_url>>]

OpenAIEmbeddingProvider(id, backend_url) ==
    [id |-> id, cls |-> "OpenAIEmbeddingProvider", args |-> <<backend_url>>]

\* Mutant: the loopback pattern tested before the Gemini pattern.
embedding_create_provider_ollama_first(config, id) ==
    IF ~HasKey(config, "backend_url") THEN Raise("KeyError", "backend_url")
    ELSE LET backend_url == config["backend_url"]
         IN  IF Contains(OllamaPattern, backend_url)
             THEN Ok(OllamaEmbeddingProvider(id, backend_url))
             ELSE IF Contains(GooglePattern, backend_url)
             THEN Ok(GeminiEmbeddingProvider(id, backend_url))
             ELSE Ok(OpenAIEmbeddingProvider(id, backend_url))

\* EmbeddingProviderFactory.create_provider
embedding_create_provider(config, id) ==
    IF ~HasKey(config, "backend_url") THEN Raise("KeyError", "backend_url")
    ELSE LET backend_url == config["backend_url"]
         IN  IF Contains(GooglePattern, backend_url)
             THEN Ok(GeminiEmbeddingProvider(id, backend_url))
             ELSE IF Contains(OllamaPattern, backend_url)
             THEN Ok(OllamaEmbeddingProvider(id, backend_url))
             ELSE Ok(OpenAIEmbeddingProvider(id, backend_url))

\* ------------------------------------------------------------------ inputs

\* "default" is the module-level _default_factory; "other" is a factory a
\* caller built.
Factories == {"default", "other"}

Extra == << <<"1">> >>

\* The configurations passed to create_provider of a factory built by
\* create_search_provider_factory().
CreateConfigs ==
    { MkConfig(<<GoogleUrl>>, m, <<>>) : m \in {<<>>, <<EmptyStr>>, <<GeminiPro>>} }
    \cup { MkConfig(u, m, <<>>) : u \in {<<>>, <<OtherUrl>>}, m \in {<<>>, <<GeminiPro>>} }
    \cup { MkConfig(<<GoogleUrl>>, <<GeminiPro>>, Extra) }

\* The configurations passed to its selector alone.
SelectConfigs ==
    { MkConfig(u, <<>>, <<>>) : u \in {<<>>, <<GoogleUrl>>, <<OtherUrl>>, <<MixedUrl>>} }
    \cup { MkConfig(<<u>>, <<GeminiPro>>, Extra) : u \in {GoogleUrl, OtherUrl, MixedUrl} }

\* The configurations passed to the embedding factory.
EmbeddingConfigs ==
    { MkConfig(u, m, x) :
        u \in {<<>>, <<EmptyStr>>, <<GoogleUrl>>, <<OllamaUrl>>, <<OllamaGeminiUrl>>,
               <<MixedUrl>>, <<OtherUrl>>},
        m \in {<<>>, <<EmptyStr>>, <<GeminiPro>>},
        x \in {<<>>, Extra} }

NoConfig == MkConfig(<<>>, <<>>, <<>>)

\* --------------------------------------------------------------- the state

\* registry[f], selector[f], cache[f]: the fields of factory f.
\* nextId: the identity the next constructed object gets.
\* last: the most recent completed call, its arguments, outcome and the
\*       collaborators it invoked.
\* handed[f]: what create_provider on f returned since f's last clear_cache,
\*       with the two relevant fields as the call read them and the other
\*       fields of the configuration.
\* retired[f]: what handed[f] held at the clear_cache calls so far.
\* emb_log: the identities EmbeddingProviderFactory returned, in order.
\* thread: the position and locals of each concurrent caller of create_provider.
\* latest[f]: for each label, the creator of the most recent register call.
\* built[f]: for each pair of relevant fields, how many objects create_provider
\*       constructed for it since f's last clear_cache.
\* failure[f]: <<config>> of the most recent create_provider call on f that
\*       raised, <<>> when none did.

Threads == {"t1", "t2"}

IdleThread == [pc |-> "idle", config |-> NoConfig, provider |-> 0, ret |-> Raise("none", "")]

Observed(op, f, label, config, result, calls) ==
    [op |-> op, f |-> f, label |-> label, config |-> config, result |-> result,
     calls |-> calls]

Handed(config, instance) ==
    [backend_url |-> dict_get(config, "backend_url", EmptyStr),
     quick_think_llm |-> dict_get(config, "quick_think_llm", EmptyStr),
     others |-> [k \in DOMAIN config \ {"backend_url", "quick_think_llm"} |-> config[k]],
     instance |-> instance]

Fields(config) ==
    <<dict_get(config, "backend_url", EmptyStr), dict_get(config, "quick_think_llm", EmptyStr)>>

Counted(b, k) == IF k \in DOMAIN b THEN b[k] ELSE 0

CountOneMore(b, k) == [x \in DOMAIN b \cup {k} |-> IF x = k THEN Counted(b, k) + 1 ELSE b[x]]

NoLabels == [l \in {} |-> ""]

\* The two register calls of create_search_provider_factory().
DefaultLatest ==
    [l \in {"google", "openai"} |->
        IF l = "google" THEN "create_google_provider" ELSE "create_openai_provider"]

\* Both factories come from create_search_provider_factory().
Init ==
    /\ registry = [f \in Factories |-> create_search_provider_factory.registry]
    /\ selector = [f \in Factories |-> create_search_provider_factory.selector]
    /\ cache = [f \in Factories |-> create_search_provider_factory.cache]
    /\ nextId = 1
    /\ last = Observed("init", "", "", NoConfig, Raise("none", ""), <<>>)
    /\ handed = [f \in Factories |-> {}]
    /\ retired = [f \in Factories |-> {}]
    /\ emb_log = <<>>
    /\ thread = [t \in Threads |-> IdleThread]
    /\ latest = [f \in Factories |-> DefaultLatest]
    /\ built = [f \in Factories |-> EmptyCache]
    /\ failure = [f \in Factories |-> <<>>]

\* An object is constructed exactly when a creator returned one.
Allocates(result, calls) ==
    /\ result.kind = "ok"
    /\ \E i \in 1..Len(calls) : calls[i].fn \in Creators

\* factory.create_provider(config), sequential; op names the entry point
CreateProviderVia(op, f, config) ==
    \E r \in {create_provider(registry[f], selector[f], cache[f], config, nextId)} :
    \E fresh \in {Allocates(r.result, r.calls)} :
        /\ fresh => nextId <= MaxInstances
        /\ cache' = [cache EXCEPT ![f] = r.cache]
        /\ nextId' = IF fresh THEN nextId + 1 ELSE nextId
        /\ last' = Observed(op, f, "", config, r.result, r.calls)
        /\ handed' = IF r.result.kind = "ok"
                      THEN [handed EXCEPT ![f] = @ \cup {Handed(config, r.result.value)}]
                      ELSE handed
        /\ built' = IF fresh THEN [built EXCEPT ![f] = CountOneMore(@, Fields(config))]
                     ELSE built
        /\ failure' = IF r.result.kind = "ok" THEN failure
                       ELSE [failure EXCEPT ![f] = <<config>>]
        /\ UNCHANGED <<registry, selector, retired, emb_log, thread, latest>>

CreateProvider(f, config) == CreateProviderVia("create_provider", f, config)

\* A clear_cache that resets the whole factory, registrations included.
ClearCacheVia_forgets_registry(op, f) ==
    /\ cache' = [cache EXCEPT ![f] = clear_cache(@)]
    /\ registry' = [registry EXCEPT ![f] = <<>>]
    /\ last' = Observed(op, f, "", NoConfig, Ok(0), <<>>)
    /\ retired' = [retired EXCEPT ![f] = @ \cup handed[f]]
    /\ handed' = [handed EXCEPT ![f] = {}]
    /\ built' = [built EXCEPT ![f] = EmptyCache]
    /\ UNCHANGED <<selector, nextId, emb_log, thread, latest, failure>>

\* factory.clear_cache(); op names the entry point
ClearCacheVia(op, f) ==
    /\ cache' = [cache EXCEPT ![f] = clear_cache(@)]
    /\ last' = Observed(op, f, "", NoConfig, Ok(0), <<>>)
    /\ retired' = [retired EXCEPT ![f] = @ \cup handed[f]]
    /\ handed' = [handed EXCEPT ![f] = {}]
    /\ built' = [built EXCEPT ![f] = EmptyCache]
    /\ UNCHANGED <<registry, selector, nextId, emb_log, thread, latest, failure>>

ClearCache(f) == ClearCacheVia("clear_cache", f)

\* factory._selector.select_provider_type(config)
SelectProviderType(f, config) ==
    /\ last' = Observed("select_provider_type", f, "", config,
                        Ok(select_provider_type(selector[f], config)), <<>>)
    /\ UNCHANGED <<registry, selector, cache, nextId, handed, retired, emb_log, thread, latest, built, failure>>

\* EmbeddingProviderFactory.create_provider(config)
EmbeddingCreateProvider(config) ==
    \E r \in {embedding_create_provider(config, nextId)} :
        /\ r.kind = "ok" => nextId <= MaxInstances
        /\ nextId' = IF r.kind = "ok" THEN nextId + 1 ELSE nextId
        /\ last' = Observed("embedding_create_provider", "", "", config, r, <<>>)
        /\ emb_log' = IF r.kind = "ok" THEN Append(emb_log, r.value.id) ELSE emb_log
        /\ UNCHANGED <<registry, selector, cache, handed, retired, thread, latest, built, failure>>

\* factory._registry.register(provider_type, creator); the observation also
\* tells which creator, if any, the label had before.
Register(f, provider_type, creator) ==
    /\ registry' = [registry EXCEPT ![f] = register(@, provider_type, creator)]
    /\ last' = Observed("register", f, provider_type, NoConfig,
                        Ok([creator |-> creator,
                            replaced |-> IF provider_type \in DOMAIN latest[f]
                                         THEN <<latest[f][provider_type]>> ELSE <<>>]), <<>>)
    /\ latest' = [latest EXCEPT ![f] =
                     [l \in DOMAIN @ \cup {provider_type} |->
                         IF l = provider_type THEN creator ELSE @[l]]]
    /\ UNCHANGED <<selector, cache, nextId, handed, retired, emb_log, thread, built, failure>>

\* factory._registry.create(provider_type, config)
RegistryCreate(f, provider_type, config) ==
    \E r \in {create(registry[f], provider_type, config, nextId)} :
    \E fresh \in {Allocates(r.result, r.calls)} :
        /\ fresh => nextId <= MaxInstances
        /\ nextId' = IF fresh THEN nextId + 1 ELSE nextId
        /\ last' = Observed("create", f, provider_type, config, r.result, r.calls)
        /\ UNCHANGED <<registry, selector, cache, handed, retired, emb_log, thread, latest, built, failure>>

\* factory.get_available_provider_types() / factory._registry.get_available_types()
GetAvailableTypes(f) ==
    /\ last' = Observed("get_available_types", f, "", NoConfig,
                        Ok(get_available_types(registry[f])), <<>>)
    /\ UNCHANGED <<registry, selector, cache, nextId, handed, retired, emb_log, thread, latest, built, failure>>

Next ==
    \/ \E config \in CreateConfigs : CreateProvider("default", config)
    \/ ClearCache("default")
    \/ \E config \in SelectConfigs : SelectProviderType("default", config)

Spec == Init /\ [][Next]_vars

\* The callers of EmbeddingProviderFactory.create_provider.
NextEmbedding == \E config \in EmbeddingConfigs : EmbeddingCreateProvider(config)

SpecEmbedding == Init /\ [][NextEmbedding]_vars

\* ------------------------------------------ a factory assembled by a caller

\* The collaborators of SearchProviderFactoryImpl(registry, selector) as a caller
\* assembles them: registry = SearchProviderRegistry(), filled by register calls,
\* and selector = MappingBasedProviderSelector(m, d).  The URLs and patterns are
\* short strings.

Labels == {"google", "openai", "anthropic"}

CustomUrls == UNION { [1..n -> {"a", "b"}] : n \in 0..MaxUrlLen }

CustomSelectors ==
    { MappingBasedProviderSelector(<< <<<<"a">>, "google">>, <<<<"b">>, "openai">> >>, "openai"),
      MappingBasedProviderSelector(<< <<<<"b">>, "openai">>, <<<<"a">>, "google">> >>, "anthropic"),
      MappingBasedProviderSelector(<< <<<<"a", "b">>, "anthropic">>, <<<<"a">>, "google">>,
                                      <<<<"b", "a">>, "openai">> >>, "google"),
      MappingBasedProviderSelector(<< <<<<"b">>, "openai">>, <<EmptyStr, "google">> >>, "anthropic"),
      MappingBasedProviderSelector(<<>>, "openai") }

CustomSelectConfigs ==
    { MkConfig(u, m, <<>>) :
        u \in {<<>>} \cup { <<x>> : x \in CustomUrls }, m \in {<<>>, <<GeminiPro>>} }

CustomCreateConfigs ==
    { MkConfig(<< <<"a">> >>, <<GeminiPro>>, <<>>), MkConfig(<< <<"b">> >>, <<GeminiPro>>, <<>>),
      MkConfig(<< <<"a">> >>, <<>>, <<>>), MkConfig(<<>>, <<GeminiPro>>, <<>>) }

InitCustom ==
    /\ registry = [f \in Factories |->
                     IF f = "other" THEN <<>> ELSE create_search_provider_factory.registry]
    /\ \E sel \in CustomSelectors :
          selector = [f \in Factories |->
                        IF f = "other" THEN sel ELSE create_search_provider_factory.selector]
    /\ cache = [f \in Factories |-> EmptyCache]
    /\ nextId = 1
    /\ last = Observed("init", "", "", NoConfig, Raise("none", ""), <<>>)
    /\ handed = [f \in Factories |-> {}]
    /\ retired = [f \in Factories |-> {}]
    /\ emb_log = <<>>
    /\ thread = [t \in Threads |-> IdleThread]
    /\ latest = [f \in Factories |-> IF f = "other" THEN NoLabels ELSE DefaultLatest]
    /\ built = [f \in Factories |-> EmptyCache]
    /\ failure = [f \in Factories |-> <<>>]

NextCustom ==
    \/ \E l \in {"google", "openai"}, creator \in Creators : Register("other", l, creator)
    \/ \E l \in Labels, config \in CustomCreateConfigs : RegistryCreate("other", l, config)
    \/ \E config \in CustomSelectConfigs : SelectProviderType("other", config)
    \/ GetAvailableTypes("other")

SpecCustom == InitCustom /\ [][NextCustom]_vars

\* ---------------------------------------------------------------------------
\* The static wrapper SearchProviderFactory next to a second factory that the
\* caller got from create_search_provider_factory().
\* ---------------------------------------------------------------------------
\* A wrapper bound to the wrong factory object.
default_factory_is_the_other == "other"

\* _default_factory = create_search_provider_factory(): the module-level factory
default_factory == "default"

\* SearchProviderFactory.create_provider(config)
StaticCreateProvider(config) ==
    CreateProviderVia("SearchProviderFactory.create_provider", default_factory, config)

\* SearchProviderFactory.clear_cache()
StaticClearCache == ClearCacheVia("SearchProviderFactory.clear_cache", default_factory)

FactoryConfigs ==
    { MkConfig(<<GoogleUrl>>, <<GeminiPro>>, <<>>), MkConfig(<<OtherUrl>>, <<GeminiPro>>, <<>>),
      MkConfig(<<OtherUrl>>, <<>>, <<>>) }

NextFactories ==
    \/ \E f \in Factories, config \in FactoryConfigs : CreateProvider(f, config)
    \/ \E f \in Factories : ClearCache(f)
    \/ \E config \in FactoryConfigs : StaticCreateProvider(config)
    \/ StaticClearCache

SpecFactories == Init /\ [][NextFactories]_vars

\* ---------------------------------------------------------------------------
\* The default-built factory called with configurations that carry a field as
\* "" or do not carry it at all.
\* ---------------------------------------------------------------------------
AliasingConfigs ==
    { MkConfig(<<GoogleUrl>>, m, <<>>) : m \in {<<>>, <<EmptyStr>>} }
    \cup { MkConfig(u, <<GeminiPro>>, <<>>) : u \in {<<>>, <<EmptyStr>>} }
    \cup { MkConfig(u, <<>>, Extra) : u \in {<<>>, <<EmptyStr>>} }
    \cup { MkConfig(<<EmptyStr>>, <<EmptyStr>>, <<>>) }

NextAliasing ==
    \/ \E config \in AliasingConfigs : CreateProvider("default", config)
    \/ ClearCache("default")

SpecAliasing == Init /\ [][NextAliasing]_vars

\* ---------------------------------------------------------------------------
\* A factory assembled by hand and then used as a whole:
\*   SearchProviderFactoryImpl(SearchProviderRegistry(),
\*       MappingBasedProviderSelector({"a": "google", "b": "openai"}, "anthropic"))
\* Its registry starts empty and receives labels while the factory is in use;
\* the default label "anthropic" is never registered.
\* ---------------------------------------------------------------------------
AssembledSelector ==
    MappingBasedProviderSelector(<< <<<<"a">>, "google">>, <<<<"b">>, "openai">> >>, "anthropic")

AssembledRegistrations ==
    { <<"google", "create_google_provider">>, <<"openai", "create_openai_provider">>,
      <<"google", "create_openai_provider">> }

AssembledConfigs ==
    { MkConfig(<< <<"a">> >>, <<GeminiPro>>, <<>>), MkConfig(<< <<"b">> >>, <<GeminiPro>>, <<>>),
      MkConfig(<<>>, <<GeminiPro>>, <<>>), MkConfig(<< <<"a">> >>, <<>>, <<>>) }

InitAssembled ==
    /\ registry = [f \in Factories |->
                     IF f = "other" THEN <<>> ELSE create_search_provider_factory.registry]
    /\ selector = [f \in Factories |->
                     IF f = "other" THEN AssembledSelector
                     ELSE create_search_provider_factory.selector]
    /\ cache = [f \in Factories |-> EmptyCache]
    /\ nextId = 1
    /\ last = Observed("init", "", "", NoConfig, Raise("none", ""), <<>>)
    /\ handed = [f \in Factories |-> {}]
    /\ retired = [f \in Factories |-> {}]
    /\ emb_log = <<>>
    /\ thread = [t \in Threads |-> IdleThread]
    /\ latest = [f \in Factories |-> IF f = "other" THEN NoLabels ELSE DefaultLatest]
    /\ built = [f \in Factories |-> EmptyCache]
    /\ failure = [f \in Factories |-> <<>>]

NextAssembled ==
    \/ \E reg \in AssembledRegistrations : Register("other", reg[1], reg[2])
    \/ \E config \in AssembledConfigs : CreateProvider("other", config)
    \/ ClearCache("other")
    \/ \E config \in AssembledConfigs : SelectProviderType("other", config)
    \/ \E l \in {"google", "anthropic"} :
          RegistryCreate("other", l, MkConfig(<< <<"a">> >>, <<GeminiPro>>, <<>>))
    \/ GetAvailableTypes("other")

SpecAssembled == InitAssembled /\ [][NextAssembled]_vars

\* ---------------------------------------- concurrent callers of create_provider

\* Two threads call _default_factory.create_provider; a thread switch can fall
\* between the cache test (line 74), the construction (lines 78-79) and the
\* store (line 82).

RaceConfigs ==
    { MkConfig(<<GoogleUrl>>, <<GeminiPro>>, <<>>), MkConfig(<<OtherUrl>>, <<GeminiPro>>, <<>>),
      MkConfig(<<OtherUrl>>, <<>>, <<>>) }

\* lines 67-75: the key, the cache test, and the return of a cached object
T_Begin(t, config) ==
    LET cache_key == cache_key_of(config)
        c == cache["default"]
    IN  /\ thread[t].pc \in {"idle", "done"}
        /\ thread' = [thread EXCEPT ![t] =
              IF cache_key \in DOMAIN c
              THEN [pc |-> "done", config |-> config, provider |-> 0, ret |-> Ok(c[cache_key])]
              ELSE [pc |-> "miss", config |-> config, provider |-> 0, ret |-> Raise("none", "")]]
        /\ UNCHANGED <<registry, selector, cache, nextId, last, handed, retired, emb_log, latest, built, failure>>

\* lines 78-79: selection and construction; an exception ends the call
T_Construct(t) ==
    \E made \in {select_and_create(registry["default"], selector["default"],
                                   thread[t].config, nextId)} :
        /\ thread[t].pc = "miss"
        /\ made.result.kind = "ok" => nextId <= MaxInstances
        /\ nextId' = IF made.result.kind = "ok" THEN nextId + 1 ELSE nextId
        /\ thread' = [thread EXCEPT ![t] =
              IF made.result.kind = "ok"
              THEN [@ EXCEPT !.pc = "built", !.provider = made.result.value]
              ELSE [@ EXCEPT !.pc = "done", !.ret = made.result]]
        /\ UNCHANGED <<registry, selector, cache, last, handed, retired, emb_log, latest, built, failure>>

\* lines 82-83: the store and the return
T_Store(t) ==
    /\ thread[t].pc = "built"
    /\ cache' = [cache EXCEPT !["default"] =
                    cache_store(@, cache_key_of(thread[t].config), thread[t].provider)]
    /\ thread' = [thread EXCEPT ![t] = [@ EXCEPT !.pc = "done", !.ret = Ok(thread[t].provider)]]
    /\ UNCHANGED <<registry, selector, nextId, last, handed, retired, emb_log, latest, built, failure>>

NextRace ==
    \/ \E t \in Threads, config \in RaceConfigs : T_Begin(t, config)
    \/ \E t \in Threads : T_Construct(t)
    \/ \E t \in Threads : T_Store(t)

SpecRace == Init /\ [][NextRace]_vars

\* ------------------------------------------------------------------ claims

\* The cache key of the two relevant fields as a call read them.
KeyOf(h) == cache_key_of(MkConfig(<<h.backend_url>>, <<h.quick_think_llm>>, <<>>))

\* C1: on one factory, between two clear_cache calls, any two create_provider
\* calls whose configurations agree on backend_url and quick_think_llm return the
\* same object, whatever the other fields are and whatever other keys were
\* requested in between.
C1_SameFieldsSameInstance ==
    \A f \in Factories : \A p, q \in handed[f] :
        (p.backend_url = q.backend_url /\ p.quick_think_llm = q.quick_think_llm)
            => p.instance.id = q.instance.id

\* Two calls that differ in an unrelated field got one object, while the
\* cache holds another key too; the later of them was answered from the cache.
C1_Witness ==
    /\ last.op = "create_provider" /\ last.result.kind = "ok" /\ last.calls = <<>>
    /\ Cardinality(DOMAIN cache[last.f]) >= 2
    /\ \E p, q \in handed[last.f] :
          /\ p.backend_url = q.backend_url /\ p.quick_think_llm = q.quick_think_llm
          /\ p.others # q.others
          /\ p.instance.id = q.instance.id /\ last.result.value = q.instance

\* C2: two successful create_provider calls with the same backend_url and
\* different quick_think_llm values have different cache keys, got different
\* objects, and both entries are in the cache, each holding its own object.
C2_DifferentModelDistinctEntry ==
    \A f \in Factories : \A p, q \in handed[f] :
        (p.backend_url = q.backend_url /\ p.quick_think_llm # q.quick_think_llm)
            => /\ KeyOf(p) # KeyOf(q)
               /\ p.instance.id # q.instance.id
               /\ KeyOf(p) \in DOMAIN cache[f] /\ cache[f][KeyOf(p)] = p.instance
               /\ KeyOf(q) \in DOMAIN cache[f] /\ cache[f][KeyOf(q)] = q.instance

C2_Witness ==
    \E p, q \in handed["default"] :
        /\ p.backend_url = q.backend_url /\ p.quick_think_llm # q.quick_think_llm
        /\ last.op = "create_provider" /\ last.result.kind = "ok"
        /\ last.result.value = q.instance /\ last.calls # <<>>

\* C3: after clear_cache the cache holds nothing; no object handed out before a
\* clear is in the cache again; and a configuration served before the clear is
\* served after it by an object of another identity, stored under its key.
C3_ClearThenFresh ==
    \A f \in Factories :
        /\ (last.op = "clear_cache" /\ last.f = f) => DOMAIN cache[f] = {}
        /\ \A r \in retired[f] : \A k \in DOMAIN cache[f] : cache[f][k].id # r.instance.id
        /\ \A r \in retired[f] : \A h \in handed[f] :
              (h.backend_url = r.backend_url /\ h.quick_think_llm = r.quick_think_llm)
                  => /\ h.instance.id # r.instance.id
                     /\ KeyOf(r) \in DOMAIN cache[f]
                     /\ cache[f][KeyOf(r)] = h.instance

C3_Witness ==
    \E r \in retired["default"] : \E h \in handed["default"] :
        /\ h.backend_url = r.backend_url /\ h.quick_think_llm = r.quick_think_llm
        /\ Cardinality(retired["default"]) >= 2

\* C5 (as claimed): create_provider of a factory built by
\* create_search_provider_factory never fails, and a backend_url without the
\* Google pattern, or none at all, gets the OpenAI provider.
C5_NeverFails ==
    last.op = "create_provider" =>
        /\ last.result.kind = "ok"
        /\ ~Contains(GooglePattern, dict_get(last.config, "backend_url", EmptyStr))
              => last.result.value.cls = "OpenAISearchProvider"

\* C9: the selector of create_search_provider_factory answers "google" for every
\* configuration whose backend_url contains the Google pattern.
C9_GooglePatternSelectsGoogle ==
    (/\ last.op = "select_provider_type"
     /\ HasKey(last.config, "backend_url")
     /\ Contains(GooglePattern, last.config["backend_url"]))
        => last.result = Ok("google")

\* The URL holds the OpenAI pattern before the Google one, and other fields.
C9_Witness ==
    /\ last.op = "select_provider_type"
    /\ last.config = MkConfig(<<MixedUrl>>, <<GeminiPro>>, Extra)
    /\ Contains(OpenAIPattern, MixedUrl)
    /\ last.result = Ok("google")

\* C10: the embedding factory answers a backend_url with the Google pattern by a
\* Gemini provider, one with the loopback pattern and no Google pattern by an
\* Ollama provider, any other by the OpenAI-compatible provider, each built on
\* that URL; no object is returned by two calls.
C10_EmbeddingDispatch ==
    /\ \A i, j \in 1..Len(emb_log) : i # j => emb_log[i] # emb_log[j]
    /\ (last.op = "embedding_create_provider" /\ HasKey(last.config, "backend_url")) =>
          LET url == last.config["backend_url"]
          IN  /\ last.result.kind = "ok"
              /\ last.result.value.args = <<url>>
              /\ last.result.value.id = emb_log[Len(emb_log)]
              /\ last.result.value.cls =
                    IF Contains(GooglePattern, url) THEN "GeminiEmbeddingProvider"
                    ELSE IF Contains(OllamaPattern, url) THEN "OllamaEmbeddingProvider"
                    ELSE "OpenAIEmbeddingProvider"

C10_Witness ==
    /\ last.op = "embedding_create_provider"
    /\ last.config = MkConfig(<<OllamaGeminiUrl>>, <<>>, <<>>)
    /\ last.result.kind = "ok" /\ last.result.value.cls = "GeminiEmbeddingProvider"
    /\ Len(emb_log) >= 2

\* p occurs in s: s = x \o p \o y for some x and y
IsSubstring(p, s) == \E i \in 0..Len(s) : \E j \in i..Len(s) : SubSeq(s, i + 1, j) = p

\* C4: SearchProviderRegistry.create with a label that is not registered raises
\* the unknown-provider-type ValueError and calls no creator; with a registered
\* label it calls that label's creator once, with the configuration, and its
\* outcome is the creator's outcome.
C4_RegistryCreate ==
    last.op = "create" =>
        LET providers == registry[last.f]
            at == { i \in 1..Len(providers) : providers[i][1] = last.label }
        IN  IF at = {}
            THEN last.result = Raise("ValueError", last.label) /\ last.calls = <<>>
            ELSE \A i \in at :
                    /\ last.calls = <<Event(providers[i][2], last.label, last.config)>>
                    /\ \E id \in {nextId - 1, nextId} :
                          last.result = call_creator(providers[i][2], last.config, id)

\* The label is unknown while two other labels are registered.
C4_Witness ==
    /\ last.op = "create" /\ last.label = "anthropic"
    /\ Len(registry[last.f]) = 2
    /\ last.result.kind = "ValueError" /\ last.calls = <<>>

\* C6: when two concurrent create_provider calls for one cache key have both
\* returned an object, the cache holds an entry for that key and it is the
\* object one of the two calls returned.
C6_RaceKeepsOneOfTheTwo ==
    \A t, u \in Threads :
        (/\ t # u
         /\ thread[t].pc = "done" /\ thread[u].pc = "done"
         /\ thread[t].ret.kind = "ok" /\ thread[u].ret.kind = "ok"
         /\ cache_key_of(thread[t].config) = cache_key_of(thread[u].config))
            => LET k == cache_key_of(thread[t].config)
               IN  /\ k \in DOMAIN cache["default"]
                   /\ cache["default"][k] \in {thread[t].ret.value, thread[u].ret.value}

\* Both callers constructed: they hold two objects for one key, and the cache
\* holds the second caller's.
C6_Witness ==
    /\ thread["t1"].pc = "done" /\ thread["t2"].pc = "done"
    /\ thread["t1"].ret.kind = "ok" /\ thread["t2"].ret.kind = "ok"
    /\ cache_key_of(thread["t1"].config) = cache_key_of(thread["t2"].config)
    /\ thread["t1"].ret.value.id # thread["t2"].ret.value.id
    /\ cache["default"][cache_key_of(thread["t1"].config)] = thread["t2"].ret.value

\* C7: select_provider_type returns the label of the earliest-inserted pattern
\* among those that occur in backend_url.
C7_FirstInsertedPatternWins ==
    last.op = "select_provider_type" =>
        LET m == selector[last.f].mappings
            url == IF HasKey(last.config, "backend_url")
                   THEN last.config["backend_url"] ELSE EmptyStr
            hits == { i \in 1..Len(m) : IsSubstring(m[i][1], url) }
        IN  hits # {} =>
                \E i \in hits : /\ \A j \in hits : i <= j
                                /\ last.result = Ok(m[i][2])

\* The URL "ba" holds both patterns; "a", inserted first, comes second in it.
C7_Witness ==
    /\ last.op = "select_provider_type"
    /\ selector[last.f].mappings = << <<<<"a">>, "google">>, <<<<"b">>, "openai">> >>
    /\ HasKey(last.config, "backend_url") /\ last.config["backend_url"] = <<"b", "a">>
    /\ last.result = Ok("google")

\* C8: when backend_url holds none of the patterns, or is absent and no pattern
\* occurs in the empty string, select_provider_type returns the default label.
C8_NoMatchSelectsDefault ==
    last.op = "select_provider_type" =>
        LET m == selector[last.f].mappings
            url == IF HasKey(last.config, "backend_url")
                   THEN last.config["backend_url"] ELSE EmptyStr
        IN  (\A i \in 1..Len(m) : ~IsSubstring(m[i][1], url))
                => last.result = Ok(selector[last.f].default_provider)

\* No backend_url key, a selector with patterns, and a default that is no
\* label of the mapping.
C8_Witness ==
    /\ last.op = "select_provider_type"
    /\ ~HasKey(last.config, "backend_url")
    /\ Len(selector[last.f].mappings) = 2
    /\ selector[last.f].default_provider = "anthropic"
    /\ last.result = Ok("anthropic")

\* C11 (as claimed): EmbeddingProviderFactory.create_provider returns a provider
\* for every configuration, also for one without the backend_url key.
C11_EmbeddingNeverFails ==
    last.op = "embedding_create_provider" => last.result.kind = "ok"

\* C12: registering a label again raises nothing and replaces its creator. After
\* any sequence of register calls, create(label, config) calls the creator of the
\* most recent register call for that label, and get_available_types lists
\* every registered label exactly once.
C12_LastRegistrationWins ==
    /\ last.op = "register" => last.result.kind = "ok"
    /\ \A l \in DOMAIN latest["other"] : \A config \in CustomCreateConfigs :
          create(registry["other"], l, config, nextId).calls
              = <<Event(latest["other"][l], l, config)>>
    /\ (last.op = "create" /\ last.label \in DOMAIN latest[last.f])
          => last.calls = <<Event(latest[last.f][last.label], last.label, last.config)>>
    /\ LET types == get_available_types(registry["other"])
       IN  /\ \A l \in DOMAIN latest["other"] :
                 Cardinality({i \in 1..Len(types) : types[i] = l}) = 1
           /\ \A i \in 1..Len(types) : types[i] \in DOMAIN latest["other"]
    /\ last.op = "get_available_types"
          => /\ Len(last.result.value) = Cardinality(DOMAIN latest[last.f])
             /\ \A l \in DOMAIN latest[last.f] :
                   \E i \in 1..Len(last.result.value) : last.result.value[i] = l

\* A label registered with one creator is registered again with the other,
\* after a second label came in: create on it now calls the second creator, and
\* the label is listed once, in its old place.
C12_Witness ==
    /\ last.op = "register"
    /\ last.f = "other"
    /\ last.label = "google"
    /\ last.result = Ok([creator |-> "create_openai_provider",
                         replaced |-> <<"create_google_provider">>])
    /\ get_available_types(registry["other"]) = <<"google", "openai">>
    /\ \A config \in CustomCreateConfigs :
          create(registry["other"], "google", config, nextId).calls
              = <<Event("create_openai_provider", "google", config)>>

\* C13: the registry and the selector (mappings and default label) are changed by
\* register alone: create_provider (hit, miss or failing), clear_cache,
\* select_provider_type, create and get_available_types leave them as they
\* were, and select_provider_type changes no state of the factory at all.
C13_ReadOnlyAfterConstruction ==
    [][ /\ last'.op \in {"create_provider", "clear_cache", "select_provider_type",
                         "create", "get_available_types"}
            => (registry' = registry /\ selector' = selector)
        /\ last'.op = "select_provider_type"
            => UNCHANGED <<registry, selector, cache, nextId, handed, retired, latest,
                           built, failure>> ]_vars

\* A factory with two registered labels and a cached instance has just raised
\* from create_provider: the registry still lists what register put there.
C13_Witness ==
    /\ last.op = "create_provider"
    /\ last.f = "other"
    /\ last.result.kind = "ValueError"
    /\ get_available_types(registry["other"]) = <<"openai", "google">>
    /\ \A l \in DOMAIN latest["other"] : OD_Get(registry["other"], l) = latest["other"][l]
    /\ DOMAIN cache["other"] # {}
    /\ selector["other"] = AssembledSelector

\* C14: in a sequential run a cache hit calls neither the selector nor the
\* registry. So between two clears create_provider constructs at most one
\* instance per pair of relevant fields, and the cache has exactly as many
\* entries as there are distinct pairs that were requested with success since
\* the last clear.
C14_OneConstructionPerKey ==
    [][ /\ (/\ last'.op = "create_provider"
            /\ cache_key_of(last'.config) \in DOMAIN cache[last'.f])
           => (/\ last'.calls = <<>>
               /\ nextId' = nextId
               /\ built' = built)
        /\ \A f \in Factories :
            /\ \A k \in DOMAIN built'[f] : built'[f][k] <= 1
            /\ Cardinality(DOMAIN cache'[f])
                 = Cardinality({<<h.backend_url, h.quick_think_llm>> : h \in handed'[f]})
            /\ Cardinality(DOMAIN cache'[f]) = Cardinality(DOMAIN built'[f]) ]_vars

\* Two pairs were requested with success since the last clear, one of them
\* more than once and the last call was such a hit: two entries, two
\* constructions, and an earlier generation of instances already cleared.
C14_Witness ==
    /\ last.op = "create_provider"
    /\ last.result.kind = "ok"
    /\ last.calls = <<>>
    /\ Cardinality(DOMAIN cache["default"]) = 2
    /\ Cardinality(handed["default"]) > 2
    /\ \A k \in DOMAIN built["default"] : built["default"][k] = 1
    /\ retired["default"] # {}

\* A create_provider step that raised: the error is the one the registry or
\* the constructor raised, and the cache is what it was, without the key.
C15_FailingCallFrame ==
    (last'.op = "create_provider" /\ last'.result.kind # "ok")
        => /\ last'.result = select_and_create(registry[last'.f], selector[last'.f],
                                                last'.config, nextId).result
           /\ last'.result.kind \in {"ValueError", "KeyError"}
           /\ cache' = cache
           /\ cache_key_of(last'.config) \notin DOMAIN cache'[last'.f]
           /\ handed' = handed

\* The call ran the selector and then the registry.
C15_RanSelectionAndConstruction(calls) ==
    /\ Len(calls) >= 2
    /\ calls[1].fn = "select_provider_type"
    /\ calls[2].fn = "create"

\* C15 (as claimed): a create_provider that fails on a miss propagates the error
\* and leaves the cache as it was, and the failure is not remembered: a later
\* call with the same configuration runs selection and construction again.
C15_FailureNotRemembered ==
    [][ /\ C15_FailingCallFrame
        /\ (last'.op = "create_provider" /\ failure[last'.f] = <<last'.config>>)
           => C15_RanSelectionAndConstruction(last'.calls) ]_vars

\* C15 (amended): a create_provider that fails on a miss propagates the error
\* and leaves the cache as it was, and the failure is not remembered: a later
\* call with the same configuration that finds no entry for its key runs
\* selection and construction again.
C15_FailureNotRememberedWhileUncached ==
    [][ /\ C15_FailingCallFrame
        /\ (/\ last'.op = "create_provider"
            /\ failure[last'.f] = <<last'.config>>
            /\ cache_key_of(last'.config) \notin DOMAIN cache[last'.f])
           => C15_RanSelectionAndConstruction(last'.calls) ]_vars

\* The configuration of the most recent failure (its label was not registered
\* then) was requested again after the label had been registered: selector,
\* registry and constructor ran, and the instance is now cached.
C15_Witness ==
    /\ last.op = "create_provider"
    /\ last.f = "other"
    /\ failure["other"] = <<last.config>>
    /\ last.result.kind = "ok"
    /\ Len(last.calls) = 3
    /\ C15_RanSelectionAndConstruction(last.calls)
    /\ cache["other"][cache_key_of(last.config)] = last.result.value

\* The labels a selector can return: the mapped ones and the default.
C16_SelectableLabels(sel) ==
    {sel.mappings[i][2] : i \in 1..Len(sel.mappings)} \cup {sel.default_provider}

\* C16: in the factory built by create_search_provider_factory every label the
\* selector can return is registered, so no create_provider call ever fails
\* with the unknown-provider-type error.
C16_EverySelectableLabelRegistered ==
    /\ \A l \in C16_SelectableLabels(selector["default"]) :
          /\ OD_Has(registry["default"], l)
          /\ \E i \in 1..Len(get_available_types(registry["default"])) :
                get_available_types(registry["default"])[i] = l
    /\ \A config \in CreateConfigs \cup SelectConfigs :
          OD_Has(registry["default"], select_provider_type(selector["default"], config))
    /\ (last.op = "create_provider" /\ last.f = "default")
          => last.result.kind # "ValueError"
    /\ (last.op = "select_provider_type" /\ last.f = "default")
          => OD_Has(registry["default"], last.result.value)

\* A miss whose backend_url matches no pattern: the selector fell back to its
\* default label, the registry knew it, and its constructor built the instance.
C16_Witness ==
    /\ last.op = "create_provider"
    /\ last.f = "default"
    /\ dict_get(last.config, "backend_url", EmptyStr) = OtherUrl
    /\ Len(last.calls) = 3
    /\ last.calls[1] = Event("select_provider_type", selector["default"].default_provider,
                             last.config)
    /\ last.calls[3].fn = OD_Get(registry["default"], selector["default"].default_provider)
    /\ last.result.kind = "ok"

\* The class each of the two registered constructors instantiates.
C17_ClassBuiltBy(creator) ==
    IF creator = "create_google_provider" THEN "GoogleSearchProvider"
    ELSE "OpenAISearchProvider"

\* The class of the label the selector returns for a backend_url.
C17_FamilyOf(f, backend_url) ==
    C17_ClassBuiltBy(OD_Get(registry[f],
        select_provider_type(selector[f], MkConfig(<<backend_url>>, <<>>, <<>>))))

\* C17: in the factory built by create_search_provider_factory, after any
\* sequential run of create_provider and clear_cache, every cached instance was
\* built by the constructor of the label the selector returns for the
\* backend_url of its key; so a hit never returns a provider of another family
\* than a miss with the same configuration would build.
C17_CachedFamilyMatchesSelector ==
    /\ \A k \in DOMAIN cache["default"] :
          \E h \in handed["default"] : KeyOf(h) = k /\ h.instance = cache["default"][k]
    /\ \A h \in handed["default"] :
          /\ cache["default"][KeyOf(h)] = h.instance
          /\ h.instance.cls = C17_FamilyOf("default", h.backend_url)
    /\ (last.op = "create_provider" /\ last.f = "default" /\ last.calls = <<>>)
          => /\ last.result.kind = "ok"
             /\ last.result.value.cls
                  = C17_FamilyOf("default", dict_get(last.config, "backend_url", EmptyStr))
             /\ LET miss == select_and_create(registry["default"], selector["default"],
                                              last.config, nextId).result
                IN  miss.kind = "ok" => miss.value.cls = last.result.value.cls

\* A hit on a Google URL returns a GoogleSearchProvider while the cache also
\* holds an OpenAISearchProvider built for another URL with the same model.
C17_Witness ==
    /\ last.op = "create_provider"
    /\ last.f = "default"
    /\ last.calls = <<>>
    /\ dict_get(last.config, "backend_url", EmptyStr) = GoogleUrl
    /\ last.result.value.cls = "GoogleSearchProvider"
    /\ \E h \in handed["default"] :
          /\ h.backend_url = OtherUrl
          /\ h.quick_think_llm = dict_get(last.config, "quick_think_llm", EmptyStr)
          /\ h.instance.cls = "OpenAISearchProvider"
          /\ cache["default"][KeyOf(h)] = h.instance

\* The configuration with each absent relevant field written out as "".
C18_WithEmptyStrings(config) ==
    MkConfig(<<dict_get(config, "backend_url", EmptyStr)>>,
             <<dict_get(config, "quick_think_llm", EmptyStr)>>, <<>>)

\* C18: for the cache key an absent backend_url or quick_think_llm is the same as
\* "". Once an instance is cached for a configuration carrying the field as "", a
\* later call whose configuration lacks it returns that instance without
\* selection or construction; without the entry the same call raises, so the
\* outcome depends on the cache and not on the configuration alone.
C18_AbsentFieldIsEmptyString ==
    [][ (/\ last'.op = "create_provider"
         /\ last'.f = "default"
         /\ ~(HasKey(last'.config, "backend_url") /\ HasKey(last'.config, "quick_think_llm")))
        => LET key == cache_key_of(C18_WithEmptyStrings(last'.config))
           IN  /\ cache_key_of(last'.config) = key
               /\ key \in DOMAIN cache["default"]
                    => /\ last'.result = Ok(cache["default"][key])
                       /\ last'.calls = <<>>
                       /\ nextId' = nextId
                       /\ cache' = cache
               /\ key \notin DOMAIN cache["default"]
                    => /\ last'.result.kind = "KeyError"
                       /\ cache' = cache ]_vars

\* A configuration without quick_think_llm was answered from the cache with the
\* GoogleSearchProvider that was constructed with the model "": the only
\* construction for that pair of fields since the last clear.
C18_Witness ==
    /\ last.op = "create_provider"
    /\ last.f = "default"
    /\ last.config = MkConfig(<<GoogleUrl>>, <<>>, <<>>)
    /\ last.calls = <<>>
    /\ last.result.kind = "ok"
    /\ last.result.value.cls = "GoogleSearchProvider"
    /\ last.result.value.args = <<EmptyStr>>
    /\ built["default"][<<GoogleUrl, EmptyStr>>] = 1
    /\ failure["default"] = <<last.config>>

\* The instances a cache holds.
C19_Cached(c) == {c[k] : k \in DOMAIN c}

\* C19: caches are per factory. The static SearchProviderFactory wrapper always
\* acts on the module-level default factory: its create_provider reads and
\* fills that factory's cache, its clear_cache empties it. create_provider and
\* clear_cache on another factory leave the default factory's cache as it was,
\* and calls on the default factory or through the wrapper leave the other's.
C19_CachesArePerFactory ==
    [][ /\ (last'.op \in {"create_provider", "clear_cache"} /\ last'.f = "other")
            => cache'["default"] = cache["default"]
        /\ (last'.op \in {"create_provider", "clear_cache"} /\ last'.f = "default")
            => cache'["other"] = cache["other"]
        /\ last'.op = "SearchProviderFactory.create_provider"
            => \E r \in {create_provider(registry["default"], selector["default"],
                                          cache["default"], last'.config, nextId)} :
                  /\ last'.result = r.result
                  /\ last'.calls = r.calls
                  /\ cache'["default"] = r.cache
                  /\ cache'["other"] = cache["other"]
        /\ last'.op = "SearchProviderFactory.clear_cache"
            => /\ cache'["default"] = EmptyCache
               /\ cache'["other"] = cache["other"]
        /\ C19_Cached(cache'["default"]) \cap C19_Cached(cache'["other"]) = {} ]_vars

\* Both factories hold an instance for the same key, two different objects,
\* and a call through the static wrapper has just been answered with the
\* default factory's one.
C19_Witness ==
    /\ last.op = "SearchProviderFactory.create_provider"
    /\ last.calls = <<>>
    /\ last.result.kind = "ok"
    /\ cache_key_of(last.config) \in DOMAIN cache["other"]
    /\ cache["default"][cache_key_of(last.config)] = last.result.value
    /\ cache["other"][cache_key_of(last.config)] # last.result.value
    /\ retired["other"] # {}

====
